---- MODULE Spec2Model ----
(***************************************************************************)
(* The serialized retry queue of src/services/geminiService.ts (queued     *)
(* revision, lines 235-308): apiRequestQueue, isApiCallInFlight,           *)
(* processApiRequestQueue and safeApiCall, run on a single-threaded event  *)
(* loop.  Every action is one run of JavaScript from a task or microtask   *)
(* start to the next await.                                                *)
(***************************************************************************)
EXTENDS Integers, Sequences, FiniteSets, TLC

\* ------------------------------------------------------------------ bounds
\* Number of safeApiCall calls in one behaviour.
MaxItems == 3
\* Number of safeApiCall calls in one behaviour of the fair specification.
MaxLiveItems == 2

Items == 1..MaxItems

\* --------------------------------------------------------- program values
\* delay(2000) between queued requests.
CooldownMs == 2000
\* Default maxRetries and initialDelay of the queued safeApiCall.
DefaultMaxRetries == 5
UnqueuedInitialDelay == 2000
DefaultInitialDelay == 10000
\* initialDelay arguments a caller passes.
InitialDelayArgs == {DefaultInitialDelay}
\* maxRetries arguments a caller passes.
MaxRetriesArgs == {0, DefaultMaxRetries}

\* ------------------------------------------------------------ text values
\* A JavaScript string is a sequence of one-character strings.
Upper == <<"A","B","C","D","E","F","G","H","I","J","K","L","M",
           "N","O","P","Q","R","S","T","U","V","W","X","Y","Z">>
Lower == <<"a","b","c","d","e","f","g","h","i","j","k","l","m",
           "n","o","p","q","r","s","t","u","v","w","x","y","z">>

LowerChar(c) ==
    IF \E k \in 1..26 : Upper[k] = c
    THEN Lower[CHOOSE k \in 1..26 : Upper[k] = c]
    ELSE c

\* String.prototype.toLowerCase
ToLowerCase(s) == [k \in 1..Len(s) |-> LowerChar(s[k])]

\* String.prototype.includes
Includes(s, sub) ==
    \E k \in 0..(Len(s) - Len(sub)) : SubSeq(s, k + 1, k + Len(sub)) = sub

Txt429 == <<"4","2","9">>
TxtRateLimit == <<"r","a","t","e"," ","l","i","m","i","t">>
TxtRateLimitCaps == <<"R","a","t","e"," ","L","i","m","i","t">>
TxtBoom == <<"b","o","o","m">>

\* Values a work item can throw: shape and the text it carries.
\*   string    throw "..."                 object   throw {message: "..."}
\*   Error     throw new Error("...")      symbol   throw Symbol("...")
\*   undefined throw undefined             circular an object that refers to itself
Errors ==
    { [shape |-> "string",    text |-> Txt429],
      [shape |-> "string",    text |-> TxtBoom],
      [shape |-> "object",    text |-> TxtRateLimitCaps],
      [shape |-> "Error",     text |-> Txt429],
      [shape |-> "Error",     text |-> TxtRateLimit],
      [shape |-> "symbol",    text |-> Txt429],
      [shape |-> "undefined", text |-> <<>>],
      [shape |-> "circular",  text |-> <<>>] }

\* Results of JSON.stringify and toString that are not strings.
Undefined == <<"(undefined)">>
Throws == <<"(TypeError)">>

\* JSON.stringify(error): a string is quoted, a plain object lists its own
\* enumerable fields, an Error has none (message and stack are not
\* enumerable), undefined and symbols give undefined, a cycle throws.
JsonStringify(e) ==
    CASE e.shape = "string"    -> <<"\"">> \o e.text \o <<"\"">>
      [] e.shape = "object"    -> <<"{","\"","m","e","s","s","a","g","e","\"",":","\"">>
                                    \o e.text \o <<"\"","}">>
      [] e.shape = "Error"     -> <<"{","}">>
      [] e.shape = "symbol"    -> Undefined
      [] e.shape = "undefined" -> Undefined
      [] e.shape = "circular"  -> Throws

\* error.toString()
ErrorToString(e) ==
    CASE e.shape = "string"    -> e.text
      [] e.shape = "object"    -> <<"[","o","b","j","e","c","t"," ","O","b","j","e","c","t","]">>
      [] e.shape = "Error"     -> <<"E","r","r","o","r",":"," ">> \o e.text
      [] e.shape = "symbol"    -> <<"S","y","m","b","o","l","(">> \o e.text \o <<")">>
      [] e.shape = "undefined" -> Throws
      [] e.shape = "circular"  -> <<"[","o","b","j","e","c","t"," ","O","b","j","e","c","t","]">>

\* const errorString = JSON.stringify(error) || error.toString();
ErrorString(e) ==
    LET j == JsonStringify(e) IN
    IF j = Throws THEN Throws
    ELSE IF j = Undefined \/ j = <<>> THEN ErrorToString(e)
    ELSE j

\* const isRateLimitError = errorString.includes('429') ||
\*                          errorString.toLowerCase().includes('rate limit');
\* "threw" when computing errorString raised.
IsRateLimitError(e) ==
    LET s == ErrorString(e) IN
    IF s = Throws THEN "threw"
    ELSE IF Includes(s, Txt429) \/ Includes(ToLowerCase(s), TxtRateLimit)
         THEN "rateLimit"
         ELSE "other"

\* ------------------------------------------------------------------ state
\* Null is JavaScript's null.
Null == "null"

\* The feature functions that wrap their work in safeApiCall, and the size of
\* the list each is given (reviews, products, competitor prices, sales).
Features ==
    {"analyzeSentiment", "getRecommendations", "getOptimalPrice",
     "forecastProductDemand"}
MaxInput == 2
InputSizes == 0..MaxInput

\* What a feature's work returns when it completes without throwing:
\* analyzeSentiment returns null for an empty review list before any remote
\* call, forecastProductDemand returns a placeholder object for fewer than
\* two sales, and otherwise the parsed response ("data") is returned.
FeatureResult(f, n) ==
    IF f = "analyzeSentiment" /\ n = 0 THEN Null ELSE "data"

\* Results a work item can return.
Results == { FeatureResult(f, n) : f \in Features, n \in InputSizes }

VARIABLES
    apiRequestQueue,    \* ids of the queued requestWithRetries closures
    isApiCallInFlight,  \* the module-level flag
    submitted,          \* number of safeApiCall calls so far
    pc,                 \* where each item's closure / drain activation stands
    maxRetries,         \* argument of each safeApiCall call
    initialDelay,       \* argument of each safeApiCall call
    attempt,            \* loop variable of each requestWithRetries
    timer,              \* ms left of the delay() an item's activation awaits
    outcome,            \* state of the promise safeApiCall returned
    log,                \* per item: how each invocation of apiCall ended
    waits,              \* per item: the waitTime of each backoff delay
    returned,           \* per item: value its successful invocation returned
    gap,                \* per item: ms since the previous item's end at its start
    sinceEnd,           \* ms since the last item's execution ended (-1: none yet)
    lastError,          \* the error bound in the catch block that last ran,
                        \* until the drain or the retry loop moves on
    apiKey,             \* process.env.API_KEY
    ai,                 \* the GoogleGenAI client binding
    moduleState,        \* evaluation of the module: loading, failed or loaded
    loading,            \* per component: its loading state
    result,             \* per component: its result state
    error,              \* ProductRecommendation's error state is set
    selected,           \* DemandForecast's selectedProductId
    req,                \* per item: the handler invocation that submitted it
    hstate,             \* per item: where that handler invocation stands
    sales,              \* mockDataService: the sales list, head first
    reviews,            \* mockDataService: the reviews list, head first
    userViews,          \* mockDataService: ids pushed onto viewedProducts lists
    saleEvents,         \* sales generated by getUpdatedData so far
    reviewEvents,       \* reviews generated by getUpdatedData so far
    activity            \* the activity the last getUpdatedData call returned

vars == <<apiRequestQueue, isApiCallInFlight, submitted, pc, maxRetries,
          initialDelay, attempt, timer, outcome, log, waits, returned, gap,
          sinceEnd, lastError, apiKey, ai, moduleState, loading, result,
          error, selected, req, hstate, sales, reviews, userViews,
          saleEvents, reviewEvents, activity>>

loadVars == <<apiKey, ai, moduleState>>

\* State of the mock data service.
mockVars == <<sales, reviews, userViews, saleEvents, reviewEvents, activity>>

\* generateSales(products, 100), generateReviews(products, 50): the entries
\* made at construction are numbered -1, -2, ... in list order; an entry
\* generated later carries the (positive) number of its event.
InitialSales == 100
InitialReviews == 50
SalesCap == 200
ReviewsCap == 100
InitialList(n) == [k \in 1..n |-> 0 - k]
NoActivity == [type |-> "none", id |-> 0]

\* State of the components that call the service.
uiVars == <<loading, result, error, selected, req, hstate>>

Components == {"DynamicPricing", "ProductRecommendation", "DemandForecast"}
Products == {"p1", "p2"}
NoProduct == ""
NoReq == [comp |-> "none", product |-> NoProduct]
Empty == [kind |-> "empty", product |-> NoProduct]

\* Values process.env.API_KEY can have: unset, the empty string, a key.
KeyUndefined == "(undefined)"
ApiKeys == {KeyUndefined, "", "key"}

\* !process.env.API_KEY
KeyMissing(k) == k = KeyUndefined \/ k = ""

NoError == [item |-> 0]

\* Number of times an item's apiCall has been invoked.
Calls(i) == Len(log[i]) + (IF pc[i] = "calling" THEN 1 ELSE 0)

Init ==
    /\ apiRequestQueue = <<>>
    /\ isApiCallInFlight = FALSE
    /\ submitted = 0
    /\ pc = [i \in Items |-> "none"]
    /\ maxRetries = [i \in Items |-> 0]
    /\ initialDelay = [i \in Items |-> 0]
    /\ attempt = [i \in Items |-> 0]
    /\ timer = [i \in Items |-> 0]
    /\ outcome = [i \in Items |-> "pending"]
    /\ log = [i \in Items |-> <<>>]
    /\ waits = [i \in Items |-> <<>>]
    /\ returned = [i \in Items |-> "none"]
    /\ gap = [i \in Items |-> -1]
    /\ sinceEnd = -1
    /\ lastError = NoError
    /\ apiKey \in ApiKeys
    /\ ai = "unconstructed"
    /\ moduleState = "loading"
    /\ loading = [c \in Components |-> FALSE]
    /\ result = [c \in Components |-> Empty]
    /\ error = FALSE
    /\ selected = NoProduct
    /\ req = [i \in Items |-> NoReq]
    /\ hstate = [i \in Items |-> "none"]
    /\ sales = InitialList(InitialSales)
    /\ reviews = InitialList(InitialReviews)
    /\ userViews = 0
    /\ saleEvents = 0
    /\ reviewEvents = 0
    /\ activity = NoActivity

\* --------------------------------------------------------------- helpers
Max(a, b) == IF a >= b THEN a ELSE b
Min(a, b) == IF a <= b THEN a ELSE b

\* resolve(v) of the promise created in safeApiCall: the first call settles
\* the promise, later calls are ignored.
Resolve(o, v) == IF o = "pending" THEN v ELSE o

\* resolve(result) after a successful attempt.
OnSuccessWrong(o, r) == Resolve(o, Null)
OnSuccess(o, r) == Resolve(o, r)

\* resolve(null) after a terminal error or exhaustion.
OnFailure(o) == Resolve(o, Null)

\* apiRequestQueue.push(requestWithRetries)
EnqueueBounded(q, i) == IF Len(q) >= 1 THEN q ELSE Append(q, i)
EnqueueFront(q, i) == <<i>> \o q
Enqueue(q, i) == Append(q, i)

\* if (isApiCallInFlight || apiRequestQueue.length === 0) return;
DrainGuardNoFlag(flag, q) == Len(q) = 0
DrainGuard(flag, q) == flag \/ Len(q) = 0

\* for (...; attempt <= maxRetries; ...)
LoopContinuesShort(a, mr) == a < mr
LoopContinues(a, mr) == a <= mr

\* if (isRateLimitError && attempt < maxRetries)
ShouldRetryAtLast(c, a, mr) == c = "rateLimit" /\ a <= mr
ShouldRetryAnyError(c, a, mr) == a < mr
ShouldRetry(c, a, mr) == c = "rateLimit" /\ a < mr

\* const waitTime = initialDelay * Math.pow(2, attempt - 1);
WaitTimeLinear(d, a) == d * a
WaitTime(d, a) == d * 2^(a - 1)

\* isApiCallInFlight = true; before the head is shifted off and awaited.
FlagLeftUnset == FALSE
FlagWhenStarting == TRUE

\* for (...; ...; attempt++)
NextAttemptSkips(a) == a + 2
NextAttempt(a) == a + 1

\* for (let attempt = 1; ...): the counter is a local of each closure call.
FirstAttemptCarried(h) == IF h > 1 THEN Max(1, attempt[h - 1]) ELSE 1
FirstAttempt(h) == 1


\* processApiRequestQueue() that reads the head without shift().
ProcessApiRequestQueuePeek(q, flag, pcs, mrs) ==
    IF DrainGuard(flag, q)
    THEN /\ apiRequestQueue' = q
         /\ isApiCallInFlight' = flag
         /\ pc' = pcs
         /\ UNCHANGED <<attempt, outcome, gap>>
    ELSE LET h == Head(q) IN
         /\ isApiCallInFlight' = FlagWhenStarting
         /\ apiRequestQueue' = q
         /\ attempt' = [attempt EXCEPT ![h] = FirstAttempt(h)]
         /\ IF LoopContinues(FirstAttempt(h), mrs[h])
            THEN /\ pc' = [pcs EXCEPT ![h] = "calling"]
                 /\ gap' = [gap EXCEPT ![h] = sinceEnd]
                 /\ UNCHANGED outcome
            ELSE /\ pc' = [pcs EXCEPT ![h] = "returned"]
                 /\ outcome' = [outcome EXCEPT ![h] = OnFailure(@)]
                 /\ UNCHANGED gap
\* processApiRequestQueue(), called with queue q, flag value flag, closure
\* positions pcs and arguments mrs: runs up to its first await, which is
\* inside the head item's requestWithRetries (await apiCall()) or, when the
\* retry loop has no iteration, the await of the closure that has returned.
ProcessApiRequestQueue(q, flag, pcs, mrs) ==
    IF DrainGuard(flag, q)
    THEN /\ apiRequestQueue' = q
         /\ isApiCallInFlight' = flag
         /\ pc' = pcs
         /\ UNCHANGED <<attempt, outcome, gap>>
    ELSE LET h == Head(q) IN
         /\ isApiCallInFlight' = FlagWhenStarting
         /\ apiRequestQueue' = Tail(q)
         /\ attempt' = [attempt EXCEPT ![h] = FirstAttempt(h)]
         /\ IF LoopContinues(FirstAttempt(h), mrs[h])
            THEN /\ pc' = [pcs EXCEPT ![h] = "calling"]
                 /\ gap' = [gap EXCEPT ![h] = sinceEnd]
                 /\ UNCHANGED outcome
            ELSE /\ pc' = [pcs EXCEPT ![h] = "returned"]
                 /\ outcome' = [outcome EXCEPT ![h] = OnFailure(@)]
                 /\ UNCHANGED gap

\* ---------------------------------------------------------------- actions
\* Evaluation of the module: the API_KEY test throws before the client is
\* constructed; otherwise the client, the queue and the flag are created and
\* the feature functions are exported.
LoadModuleNoCheck ==
    /\ moduleState = "loading"
    /\ ai' = "constructed"
    /\ moduleState' = "loaded"
    /\ apiRequestQueue' = <<>>
    /\ isApiCallInFlight' = FALSE
    /\ UNCHANGED <<submitted, pc, maxRetries, initialDelay, attempt, timer,
                   outcome, log, waits, returned, gap, sinceEnd, lastError,
                   apiKey>>
    /\ UNCHANGED uiVars
    /\ UNCHANGED mockVars

LoadModule ==
    /\ moduleState = "loading"
    /\ IF KeyMissing(apiKey)
       THEN /\ moduleState' = "failed"
            /\ UNCHANGED <<ai, apiRequestQueue, isApiCallInFlight>>
       ELSE /\ ai' = "constructed"
            /\ moduleState' = "loaded"
            /\ apiRequestQueue' = <<>>
            /\ isApiCallInFlight' = FALSE
    /\ UNCHANGED <<submitted, pc, maxRetries, initialDelay, attempt, timer,
                   outcome, log, waits, returned, gap, sinceEnd, lastError,
                   apiKey>>
    /\ UNCHANGED uiVars
    /\ UNCHANGED mockVars

\* safeApiCall(apiCall, mr, d) that pushes the closure and returns.
SafeApiCallPushOnly(mr, d) ==
    /\ moduleState = "loaded"
    /\ submitted < MaxItems
    /\ LET i == submitted + 1 IN
       /\ submitted' = i
       /\ maxRetries' = [maxRetries EXCEPT ![i] = mr]
       /\ initialDelay' = [initialDelay EXCEPT ![i] = d]
       /\ apiRequestQueue' = Enqueue(apiRequestQueue, i)
       /\ pc' = [pc EXCEPT ![i] = "queued"]
    /\ UNCHANGED <<isApiCallInFlight, attempt, outcome, gap, timer, log, waits,
                   returned, sinceEnd, lastError>>
    /\ UNCHANGED loadVars
    /\ UNCHANGED uiVars
    /\ UNCHANGED mockVars

\* safeApiCall(apiCall, mr, d): creates the promise, pushes the closure and
\* calls processApiRequestQueue().
SafeApiCall(mr, d) ==
    /\ moduleState = "loaded"
    /\ submitted < MaxItems
    /\ LET i == submitted + 1 IN
       /\ submitted' = i
       /\ maxRetries' = [maxRetries EXCEPT ![i] = mr]
       /\ initialDelay' = [initialDelay EXCEPT ![i] = d]
       /\ ProcessApiRequestQueue(Enqueue(apiRequestQueue, i), isApiCallInFlight,
                                 [pc EXCEPT ![i] = "queued"],
                                 [maxRetries EXCEPT ![i] = mr])
    /\ UNCHANGED <<timer, log, waits, returned, sinceEnd, lastError>>
    /\ UNCHANGED loadVars
    /\ UNCHANGED uiVars
    /\ UNCHANGED mockVars

\* await apiCall() completes with result r.
CallSucceedsNoReturn(i, r) ==
    /\ pc[i] = "calling"
    /\ log' = [log EXCEPT ![i] = Append(@, "ok")]
    /\ returned' = [returned EXCEPT ![i] = r]
    /\ attempt' = [attempt EXCEPT ![i] = @ + 1]
    /\ IF LoopContinues(attempt[i] + 1, maxRetries[i])
       THEN /\ pc' = [pc EXCEPT ![i] = "calling"]
            /\ outcome' = [outcome EXCEPT ![i] = OnSuccess(@, r)]
            /\ UNCHANGED sinceEnd
       ELSE /\ pc' = [pc EXCEPT ![i] = "returned"]
            /\ outcome' = [outcome EXCEPT ![i] = OnFailure(OnSuccess(@, r))]
            /\ sinceEnd' = 0
    /\ UNCHANGED <<apiRequestQueue, isApiCallInFlight, submitted, maxRetries,
                   initialDelay, timer, waits, gap, lastError>>
    /\ UNCHANGED loadVars
    /\ UNCHANGED uiVars
    /\ UNCHANGED mockVars

\* await apiCall() completes with result r: resolve(result); return.
CallSucceeds(i, r) ==
    /\ pc[i] = "calling"
    /\ log' = [log EXCEPT ![i] = Append(@, "ok")]
    /\ returned' = [returned EXCEPT ![i] = r]
    /\ outcome' = [outcome EXCEPT ![i] = OnSuccess(@, r)]
    /\ pc' = [pc EXCEPT ![i] = "returned"]
    /\ sinceEnd' = 0
    /\ UNCHANGED <<apiRequestQueue, isApiCallInFlight, submitted, maxRetries,
                   initialDelay, attempt, timer, waits, gap, lastError>>
    /\ UNCHANGED loadVars
    /\ UNCHANGED uiVars
    /\ UNCHANGED mockVars

\* await apiCall() throws e: the catch block of requestWithRetries.
CallFails(i, e) ==
    /\ pc[i] = "calling"
    /\ lastError' = [item |-> i, error |-> e]
    /\ LET c == IsRateLimitError(e) IN
       /\ log' = [log EXCEPT ![i] = Append(@, c)]
       /\ IF c = "threw"
          THEN \* the catch block itself throws: the closure's promise rejects
               /\ pc' = [pc EXCEPT ![i] = "rejected"]
               /\ sinceEnd' = 0
               /\ UNCHANGED <<outcome, waits, timer>>
          ELSE IF ShouldRetry(c, attempt[i], maxRetries[i])
          THEN /\ waits' = [waits EXCEPT ![i] =
                              Append(@, WaitTime(initialDelay[i], attempt[i]))]
               /\ timer' = [timer EXCEPT ![i] =
                              WaitTime(initialDelay[i], attempt[i])]
               /\ pc' = [pc EXCEPT ![i] = "backoff"]
               /\ UNCHANGED <<outcome, sinceEnd>>
          ELSE /\ outcome' = [outcome EXCEPT ![i] = OnFailure(@)]
               /\ pc' = [pc EXCEPT ![i] = "returned"]
               /\ sinceEnd' = 0
               /\ UNCHANGED <<waits, timer>>
    /\ UNCHANGED <<apiRequestQueue, isApiCallInFlight, submitted, maxRetries,
                   initialDelay, attempt, returned, gap>>
    /\ UNCHANGED loadVars
    /\ UNCHANGED uiVars
    /\ UNCHANGED mockVars

\* await delay(waitTime) completes: attempt++, the loop test, and either the
\* next apiCall() or the code after the loop.
BackoffElapsed(i) ==
    /\ pc[i] = "backoff"
    /\ timer[i] = 0
    /\ attempt' = [attempt EXCEPT ![i] = NextAttempt(@)]
    /\ IF LoopContinues(NextAttempt(attempt[i]), maxRetries[i])
       THEN /\ pc' = [pc EXCEPT ![i] = "calling"]
            /\ UNCHANGED <<outcome, sinceEnd>>
       ELSE /\ pc' = [pc EXCEPT ![i] = "returned"]
            /\ outcome' = [outcome EXCEPT ![i] = OnFailure(@)]
            /\ UNCHANGED sinceEnd
    /\ lastError' = NoError
    /\ UNCHANGED <<apiRequestQueue, isApiCallInFlight, submitted, maxRetries,
                   initialDelay, timer, log, waits, returned, gap>>
    /\ UNCHANGED loadVars
    /\ UNCHANGED uiVars
    /\ UNCHANGED mockVars

\* await apiRequest() in processApiRequestQueue completes, normally or
\* through the catch block; the drain then starts delay(2000).
DrainAfterRequestNoCatch(i) ==
    /\ pc[i] \in {"returned", "rejected"}
    /\ IF pc[i] = "returned"
       THEN /\ timer' = [timer EXCEPT ![i] = CooldownMs]
            /\ pc' = [pc EXCEPT ![i] = "cooldown"]
       ELSE /\ pc' = [pc EXCEPT ![i] = "done"]
            /\ UNCHANGED timer
    /\ lastError' = NoError
    /\ UNCHANGED <<apiRequestQueue, isApiCallInFlight, submitted, maxRetries,
                   initialDelay, attempt, outcome, log, waits, returned, gap,
                   sinceEnd>>
    /\ UNCHANGED loadVars
    /\ UNCHANGED uiVars
    /\ UNCHANGED mockVars

DrainAfterRequestEarlyClear(i) ==
    /\ pc[i] \in {"returned", "rejected"}
    /\ timer' = [timer EXCEPT ![i] = CooldownMs]
    /\ pc' = [pc EXCEPT ![i] = "cooldown"]
    /\ isApiCallInFlight' = FALSE
    /\ lastError' = NoError
    /\ UNCHANGED <<apiRequestQueue, submitted, maxRetries, initialDelay,
                   attempt, outcome, log, waits, returned, gap, sinceEnd>>
    /\ UNCHANGED loadVars
    /\ UNCHANGED uiVars
    /\ UNCHANGED mockVars

DrainAfterRequestNoDelay(i) ==
    /\ pc[i] \in {"returned", "rejected"}
    /\ timer' = [timer EXCEPT ![i] = 0]
    /\ pc' = [pc EXCEPT ![i] = "cooldown"]
    /\ lastError' = NoError
    /\ UNCHANGED <<apiRequestQueue, isApiCallInFlight, submitted, maxRetries,
                   initialDelay, attempt, outcome, log, waits, returned, gap,
                   sinceEnd>>
    /\ UNCHANGED loadVars
    /\ UNCHANGED uiVars
    /\ UNCHANGED mockVars

DrainAfterRequest(i) ==
    /\ pc[i] \in {"returned", "rejected"}
    /\ timer' = [timer EXCEPT ![i] = CooldownMs]
    /\ pc' = [pc EXCEPT ![i] = "cooldown"]
    /\ lastError' = NoError
    /\ UNCHANGED <<apiRequestQueue, isApiCallInFlight, submitted, maxRetries,
                   initialDelay, attempt, outcome, log, waits, returned, gap,
                   sinceEnd>>
    /\ UNCHANGED loadVars
    /\ UNCHANGED uiVars
    /\ UNCHANGED mockVars

\* await delay(2000) completes: isApiCallInFlight = false;
CooldownElapsedNoDrain(i) ==
    /\ pc[i] = "cooldown"
    /\ timer[i] = 0
    /\ isApiCallInFlight' = FALSE
    /\ pc' = [pc EXCEPT ![i] = "done"]
    /\ UNCHANGED <<apiRequestQueue, attempt, outcome, gap>>
    /\ UNCHANGED <<submitted, maxRetries, initialDelay, timer, log, waits,
                   returned, sinceEnd, lastError>>
    /\ UNCHANGED loadVars
    /\ UNCHANGED uiVars
    /\ UNCHANGED mockVars

\* await delay(2000) completes: isApiCallInFlight = false;
\* processApiRequestQueue();
CooldownElapsed(i) ==
    /\ pc[i] = "cooldown"
    /\ timer[i] = 0
    /\ ProcessApiRequestQueue(apiRequestQueue, FALSE,
                              [pc EXCEPT ![i] = "done"], maxRetries)
    /\ UNCHANGED <<submitted, maxRetries, initialDelay, timer, log, waits,
                   returned, sinceEnd, lastError>>
    /\ UNCHANGED loadVars
    /\ UNCHANGED uiVars
    /\ UNCHANGED mockVars

\* Amounts by which the clock can advance next: up to the expiry of a pending
\* delay.
TickAmounts == { timer[i] : i \in {j \in Items : timer[j] > 0} }

\* setTimeout: d ms pass.  A delay completes no earlier than requested.
Tick(d) ==
    /\ d > 0
    /\ timer' = [i \in Items |-> Max(0, timer[i] - d)]
    /\ sinceEnd' = IF sinceEnd < 0 THEN sinceEnd ELSE Min(CooldownMs, sinceEnd + d)
    /\ UNCHANGED <<apiRequestQueue, isApiCallInFlight, submitted, pc, maxRetries,
                   initialDelay, attempt, outcome, log, waits, returned, gap,
                   lastError>>
    /\ UNCHANGED loadVars
    /\ UNCHANGED uiVars
    /\ UNCHANGED mockVars

Next ==
    \/ LoadModule
    \/ \E mr \in MaxRetriesArgs, d \in InitialDelayArgs : SafeApiCall(mr, d)
    \/ \E i \in Items, r \in Results : CallSucceeds(i, r)
    \/ \E i \in Items, e \in Errors : CallFails(i, e)
    \/ \E i \in Items : BackoffElapsed(i)
    \/ \E i \in Items : DrainAfterRequest(i)
    \/ \E i \in Items : CooldownElapsed(i)
    \/ \E d \in TickAmounts : Tick(d)

Spec == Init /\ [][Next]_vars

\* The event loop runs every continuation that is ready, timers expire, and
\* every invocation of a work item completes; callers need not call again.
Fairness ==
    /\ \A i \in Items :
          /\ WF_vars((\E r \in Results : CallSucceeds(i, r))
                       \/ (\E e \in Errors : CallFails(i, e)))
          /\ WF_vars(BackoffElapsed(i))
          /\ WF_vars(DrainAfterRequest(i))
          /\ WF_vars(CooldownElapsed(i))
    /\ WF_vars(\E d \in TickAmounts : Tick(d))

LiveNext == Next /\ submitted' <= MaxLiveItems

LiveSpec == Init /\ [][LiveNext]_vars /\ Fairness

\* ----------------------------------------------------------------- claims
Last(q) == q[Len(q)]

\* An item is in flight from the start of its first attempt to the end of
\* its last attempt, backoff waits included.
InFlight(i) == pc[i] \in {"calling", "backoff"}

\* The item's retry procedure has ended (its closure returned or threw).
Finished(i) == pc[i] \in {"returned", "rejected", "cooldown", "done"}

Succeeded(i) == log[i] # <<>> /\ Last(log[i]) = "ok"
FailedTerminally(i) == log[i] # <<>> /\ Last(log[i]) = "other"
Exhausted(i) ==
    \/ maxRetries[i] <= 0 /\ Finished(i)
    \/ log[i] # <<>> /\ Last(log[i]) = "rateLimit" /\ Len(log[i]) >= maxRetries[i]

\* C1: in every reachable state at most one work item is in flight,
\* however many callers submit and whenever they do.
C1_MutualExclusion ==
    Cardinality({i \in Items : InFlight(i)}) <= 1

\* C1 witness: one item is in its backoff wait while two later ones, submitted
\* meanwhile, are pending.
C1_Witness ==
    \E i \in Items : /\ pc[i] = "backoff"
                     /\ Len(apiRequestQueue) >= 2

\* C2: items start in submission order (ids are handed out in submission
\* order): a later item has started only when every earlier item's retry
\* procedure has finished.
C2_FifoStart ==
    \A i, j \in Items :
        (i < j /\ Calls(j) >= 1) => Finished(i)

\* C2 witness: every item has started, and one that is not the last retried.
C2_Witness ==
    /\ \A i \in Items : Calls(i) >= 1
    /\ \E i \in Items : i < MaxItems /\ Len(waits[i]) >= 1

\* C3: the promise of safeApiCall is never rejected; it carries the work's
\* own result when an attempt succeeded and null when the work failed
\* terminally or exhausted its attempts, and nothing else.
C3_NeverRejects ==
    \A i \in Items :
        /\ outcome[i] \in {"pending"} \cup Results
        /\ Succeeded(i) => outcome[i] = returned[i]
        /\ (FailedTerminally(i) \/ Exhausted(i)) => outcome[i] = Null
        /\ outcome[i] # "pending"
             => (Succeeded(i) \/ FailedTerminally(i) \/ Exhausted(i))

\* C3 witness: one item resolved with data, one with null after a terminal
\* error and one with null after exhausting several attempts.
C3_Witness ==
    \E i, j, k \in Items :
        /\ Succeeded(i) /\ outcome[i] = "data"
        /\ FailedTerminally(j) /\ outcome[j] = Null
        /\ Exhausted(k) /\ Len(log[k]) >= 2 /\ outcome[k] = Null

\* C4: whatever value an invocation throws, once an item's retry procedure
\* has ended its caller's promise is resolved (nothing resolves it later).
C4_EveryPathSettles ==
    \A i \in Items : Finished(i) => outcome[i] # "pending"

\* The text an error carries contains "429" or, in any case, "rate limit".
CarriesRateLimitText(e) ==
    /\ e.shape \in {"string", "object", "Error", "symbol"}
    /\ \/ Includes(e.text, Txt429)
       \/ Includes(ToLowerCase(e.text), TxtRateLimit)

\* C5: a failed attempt is treated as retryable exactly when the error's
\* text contains "429" or "rate limit", for strings, plain objects and Error
\* objects alike.
C5_Classification ==
    lastError.item # 0 =>
        (Last(log[lastError.item]) = "rateLimit"
            <=> CarriesRateLimitText(lastError.error))

\* C6 as stated: an item with an attempt that failed with a not retryable
\* error was invoked exactly once in total, waited for no backoff and
\* resolved with null.
C6_TerminalShortCircuit ==
    \A i \in Items :
        (log[i] # <<>> /\ Last(log[i]) = "other")
            => /\ Calls(i) = 1
               /\ waits[i] = <<>>
               /\ outcome[i] = Null

\* C6: the attempt that fails with a not retryable error is the item's last:
\* the work is not invoked again, no backoff wait follows that attempt and
\* the caller has null; the work was invoked exactly once in total, with no
\* backoff at all, when that attempt is the first.
C6_TerminalStops ==
    \A i \in Items : \A k \in 1..Len(log[i]) :
        log[i][k] = "other"
            => /\ k = Len(log[i])
               /\ Finished(i)
               /\ Calls(i) = k
               /\ Len(waits[i]) = k - 1
               /\ outcome[i] = Null

\* C6 witness: one item ended on a terminal error at its first attempt,
\* another at a later attempt, after a backoff.
C6_Witness ==
    \E i, j \in Items :
        /\ log[i] = <<"other">> /\ pc[i] = "done"
        /\ Len(log[j]) >= 2 /\ Last(log[j]) = "other" /\ pc[j] = "done"

\* C7: an item whose every attempt failed with a retryable error is invoked
\* exactly maxRetries times, never more, and then resolves with null.
C7_Exhaustion ==
    \A i \in Items :
        /\ Calls(i) <= Max(0, maxRetries[i])
        /\ (Finished(i) /\ log[i] # <<>>
              /\ \A k \in 1..Len(log[i]) : log[i][k] = "rateLimit")
            => /\ Len(log[i]) = maxRetries[i]
               /\ outcome[i] = Null

\* C7 witness: an item that failed retryably DefaultMaxRetries times and
\* has ended.
C7_Witness ==
    \E i \in Items :
        /\ Finished(i)
        /\ Len(log[i]) = DefaultMaxRetries
        /\ \A k \in 1..Len(log[i]) : log[i][k] = "rateLimit"

\* C8: the wait after the k-th attempt, when it failed retryably and
\* k < maxRetries, is initialDelay * 2^(k-1); there is no wait after the
\* last attempt or after an error that is not retryable.
C8_BackoffGrowth ==
    \A i \in Items :
        /\ Len(waits[i]) <= Len(log[i])
        /\ \A k \in 1..Len(log[i]) :
             IF log[i][k] = "rateLimit" /\ k < maxRetries[i]
             THEN /\ Len(waits[i]) >= k
                  /\ waits[i][k] = initialDelay[i] * 2^(k - 1)
                  /\ (pc[i] = "backoff" /\ k = Len(log[i]))
                        => timer[i] <= waits[i][k]
             ELSE Len(waits[i]) < k
        /\ pc[i] = "calling" => timer[i] = 0

\* C8 witness: an item is about to make its last attempt after four waits.
C8_Witness ==
    \E i \in Items :
        /\ Len(waits[i]) = DefaultMaxRetries - 1
        /\ pc[i] = "backoff"
        /\ timer[i] = 0

\* C9: an item that starts after another item's execution has ended starts
\* at least the cooldown later, whether it was pending or came afterwards.
C9_CooldownSpacing ==
    \A i \in Items :
        (Calls(i) >= 1 /\ gap[i] # -1) => gap[i] >= CooldownMs

\* C9 witness: every item but the first has started, each at least the
\* cooldown after an earlier item's execution ended.
C9_Witness ==
    /\ \A i \in Items : i > 1 => (Calls(i) >= 1 /\ gap[i] >= CooldownMs)
    /\ \A i \in Items : i < MaxItems => Len(log[i]) >= 1

\* C10: a failing item does not wedge the queue: provided invocations
\* complete, every pending item leaves the queue and starts, and every
\* drain activation reaches its end with the flag handed on.
C10_NoWedge ==
    \A j \in Items :
        /\ (pc[j] = "queued") ~> (pc[j] \notin {"none", "queued"})
        /\ Finished(j) ~> (pc[j] = "done")

\* C10 witness: an item started after an earlier one ended with an exception
\* escaping its retry procedure.
C10_Witness ==
    \E i, j \in Items :
        /\ i < j
        /\ log[i] # <<>> /\ Last(log[i]) = "threw"
        /\ Calls(j) >= 1

\* C11: outcomes are delivered in submission order: when a later item's
\* caller has its outcome, every earlier item's caller has its own.
C11_OutcomeOrder ==
    \A i, j \in Items :
        (i < j /\ outcome[j] # "pending") => outcome[i] # "pending"

\* ------------------------------------------------- the example scenario
\* Three items submitted in a row with the default arguments; item 2's work
\* fails on its first two invocations with an error whose message is
\* "429 rate limit" and succeeds on the third; items 1 and 3 succeed.
ScenarioItems == {1, 2, 3}
Txt429RateLimit == Txt429 \o <<" ">> \o TxtRateLimit

\* The values with that message: an Error object or a plain object.
ScenarioErrors ==
    { [shape |-> "Error",  text |-> Txt429RateLimit],
      [shape |-> "object", text |-> Txt429RateLimit] }

\* initialDelay of the scenario's items: the default, or the 10 ms of the
\* written example.
ScenarioDelays == {10, DefaultInitialDelay}

\* The n-th invocation of item i fails in the scenario.
ScenarioFails(i, n) == i = 2 /\ n <= 2

\* In the scenario the clock is also observed part way into each delay.
ScenarioTicks ==
    TickAmounts \cup { CooldownMs \div 2 : i \in {j \in Items : timer[j] > CooldownMs \div 2} }

ScenarioNext ==
    \/ LoadModule
    \/ /\ submitted + 1 \in ScenarioItems
       /\ \E d \in ScenarioDelays : SafeApiCall(DefaultMaxRetries, d)
    \/ /\ submitted + 1 \notin ScenarioItems
       /\ \/ \E i \in Items : ~ScenarioFails(i, Calls(i)) /\ CallSucceeds(i, "data")
          \/ \E i \in Items, e \in ScenarioErrors :
                ScenarioFails(i, Calls(i)) /\ CallFails(i, e)
          \/ \E i \in Items : BackoffElapsed(i)
          \/ \E i \in Items : DrainAfterRequest(i)
          \/ \E i \in Items : CooldownElapsed(i)
          \/ \E d \in ScenarioTicks : Tick(d)

ScenarioSpec == Init /\ [][ScenarioNext]_vars

\* C12: in the scenario item 2 is invoked exactly three times with waits of
\* initialDelay and 2*initialDelay between the invocations, item 3 starts
\* only after item 2's cooldown, and no caller receives null.
C12_Scenario ==
    /\ \A i \in ScenarioItems : outcome[i] \in {"pending", "data"}
    /\ Finished(2) =>
          /\ Calls(2) = 3
          /\ waits[2] = <<initialDelay[2], 2 * initialDelay[2]>>
    /\ Calls(3) >= 1 => (pc[2] = "done" /\ gap[3] >= CooldownMs)
    /\ (\A i \in ScenarioItems : pc[i] = "done")
          => \A i \in ScenarioItems : outcome[i] = "data"

\* What an item's own arguments and own attempt results determine: whether
\* its retry procedure is over, and the outcome its caller has.
OwnComplete(i) ==
    \/ maxRetries[i] <= 0
    \/ /\ log[i] # <<>>
       /\ \/ Last(log[i]) \in {"ok", "other", "threw"}
          \/ Len(log[i]) >= maxRetries[i]

OwnOutcome(i) ==
    IF ~OwnComplete(i) THEN "pending"
    ELSE IF log[i] = <<>> THEN Null
    ELSE CASE Last(log[i]) = "ok"    -> returned[i]
           [] Last(log[i]) = "threw" -> "pending"
           [] OTHER                  -> Null

\* C13: whatever the other items did, a started item's number of invocations
\* and its outcome are those its own arguments and its own attempts' results
\* determine: it is invoked again only after a retryable failure of its own,
\* at most maxRetries times, and its procedure ends exactly when its own
\* results end it.  Two runs that differ in another item's behaviour therefore
\* give it the same outcome and the same number of invocations.
C13_NonInterference ==
    \A i \in Items :
        pc[i] \notin {"none", "queued"} =>
            /\ \A k \in 1..(Len(log[i]) - 1) : log[i][k] = "rateLimit"
            /\ Calls(i) <= Max(0, maxRetries[i])
            /\ Finished(i) <=> OwnComplete(i)
            /\ outcome[i] = OwnOutcome(i)

\* C13 witness: an item succeeded at its second attempt after an earlier item
\* had failed retryably on every one of its attempts.
C13_Witness ==
    \E i, j \in Items :
        /\ i < j
        /\ Finished(i) /\ Len(log[i]) = maxRetries[i]
        /\ log[i] # <<>> /\ Last(log[i]) = "rateLimit"
        /\ log[j] = <<"rateLimit", "ok">> /\ outcome[j] = "data"

\* C14: null is a failure sentinel: a caller has null only when its work
\* item failed terminally or exhausted its retries, never when the work
\* completed successfully.
C14_NullIsFailure ==
    \A i \in Items :
        outcome[i] = Null => (~Succeeded(i) /\ (FailedTerminally(i) \/ Exhausted(i)))

\* C15: when API_KEY is absent at module load, initialization fails before
\* the client is constructed: the client and the queue never exist, and no
\* work item is ever submitted or executed.
C15_MissingKeyFatal ==
    apiKey = KeyUndefined =>
        /\ ai = "unconstructed"
        /\ moduleState # "loaded"
        /\ submitted = 0
        /\ apiRequestQueue = <<>> /\ ~isApiCallInFlight
        /\ \A i \in Items : pc[i] = "none" /\ Calls(i) = 0

\* C15 witness: the module was evaluated without API_KEY and threw.
C15_Witness == apiKey = KeyUndefined /\ moduleState = "failed"

\* The ids in a queue.
Range(q) == { q[k] : k \in 1..Len(q) }

\* C16: a pending item leaves the queue only by being removed at the head
\* for execution: every step leaves the queue as it is, appends the newly
\* submitted item behind the others, or removes the head and starts it; the
\* queue holds exactly the pending items in submission order; and a submit
\* is never refused, whatever the queue length: it is possible whenever the
\* module is loaded, and the item it submits is pending or started.
C16_NoDropping ==
    [][ /\ Range(apiRequestQueue) = {i \in Items : pc[i] = "queued"}
        /\ \A k \in 1..(Len(apiRequestQueue) - 1) :
               apiRequestQueue[k] < apiRequestQueue[k + 1]
        /\ \/ apiRequestQueue' = apiRequestQueue
           \/ /\ submitted' = submitted + 1
              /\ apiRequestQueue' = Append(apiRequestQueue, submitted')
           \/ /\ apiRequestQueue # <<>>
              /\ apiRequestQueue' = Tail(apiRequestQueue)
              /\ pc'[Head(apiRequestQueue)] \in {"calling", "returned"}
        /\ \A i \in Items :
               pc[i] = "queued" /\ pc'[i] # "queued" => i = Head(apiRequestQueue)
        /\ (moduleState = "loaded" /\ submitted < MaxItems) =>
               ENABLED (\E mr \in MaxRetriesArgs, d \in InitialDelayArgs :
                            SafeApiCall(mr, d))
        /\ submitted' = submitted + 1 =>
               \/ pc'[submitted'] = "queued" /\ submitted' \in Range(apiRequestQueue')
               \/ pc'[submitted'] \in {"calling", "returned"}
      ]_vars

\* C16 witness: an item that waited in the queue was removed at the head and
\* started while a later item is still pending behind it.
C16_Witness ==
    \E i \in Items :
        /\ gap[i] >= CooldownMs /\ Calls(i) >= 1
        /\ apiRequestQueue # <<>> /\ Head(apiRequestQueue) > i

\* C17: a hung call blocks the queue: as long as an invocation of the
\* executing item has not completed, the flag is true and stays true, and no
\* other item, pending or submitted meanwhile, is started or resolved.
C17_HungCallBlocks ==
    [][ \A i \in Items :
            (pc[i] = "calling" /\ pc'[i] = "calling") =>
                /\ isApiCallInFlight /\ isApiCallInFlight'
                /\ \A j \in Items \ {i} :
                       /\ pc'[j] \in {"none", "queued", "done"}
                       /\ pc[j] = "queued" => pc'[j] = "queued"
                       /\ log'[j] = log[j]
                       /\ outcome'[j] = outcome[j]
      ]_vars

\* C17 witness: two items submitted during an invocation that has not
\* completed are pending behind it.
C17_Witness ==
    \E i \in Items :
        /\ pc[i] = "calling"
        /\ Len(apiRequestQueue) >= 2
        /\ \A k \in 1..Len(apiRequestQueue) : apiRequestQueue[k] > i

\* C18: processApiRequestQueue is a no-op when the flag is true or the queue
\* is empty.  Called by a submit while an item executes, it leaves the flag
\* true, the running item and every pending item as they are and starts
\* nothing: the step only appends the new item.  Called after a cooldown with
\* nothing pending, it leaves the queue empty and the flag false and starts
\* nothing.
C18_DrainNoOp ==
    [][ /\ (submitted' = submitted + 1 /\ isApiCallInFlight) =>
               /\ apiRequestQueue' = Append(apiRequestQueue, submitted')
               /\ isApiCallInFlight'
               /\ pc' = [pc EXCEPT ![submitted'] = "queued"]
               /\ UNCHANGED <<attempt, timer, log, outcome, waits, gap>>
        /\ \A i \in Items :
               (pc[i] = "cooldown" /\ pc'[i] = "done" /\ apiRequestQueue = <<>>) =>
                   /\ apiRequestQueue' = <<>>
                   /\ ~isApiCallInFlight'
                   /\ pc' = [pc EXCEPT ![i] = "done"]
                   /\ UNCHANGED <<attempt, timer, log, outcome, waits, gap>>
      ]_vars

\* C18 witness: an item submitted while another executes is pending behind
\* it, the flag is true, and an earlier item's cooldown has ended.
C18_Witness ==
    /\ isApiCallInFlight
    /\ \E i, j, k \in Items :
           /\ pc[i] = "done"
           /\ InFlight(j)
           /\ pc[k] = "queued" /\ k \in Range(apiRequestQueue)

\* The item is between its removal from the queue and the end of its
\* cooldown.
ExecutingStates == {"calling", "backoff", "returned", "rejected", "cooldown"}
Executing(i) == pc[i] \in ExecutingStates

\* C19: the executing-flag protocol.  The flag is true exactly while some
\* item is between its removal from the queue and the end of its cooldown,
\* backoff waits included; it becomes true in the step that removes and
\* starts an item; and it becomes false only when a cooldown has run out
\* with nothing pending (with an item pending the drain is re-invoked at
\* once and the flag is true again when the next item starts).
C19_FlagProtocol ==
    [][ /\ isApiCallInFlight <=> \E i \in Items : Executing(i)
        /\ (~isApiCallInFlight /\ isApiCallInFlight') =>
               \E i \in Items : /\ pc[i] \in {"none", "queued"}
                                /\ pc'[i] \in ExecutingStates
                                /\ i \notin Range(apiRequestQueue')
        /\ (isApiCallInFlight /\ ~isApiCallInFlight') =>
               \E i \in Items : /\ pc[i] = "cooldown" /\ timer[i] = 0
                                /\ pc'[i] = "done"
                                /\ apiRequestQueue = <<>>
        /\ \A i \in Items :
               (pc[i] = "cooldown" /\ pc'[i] = "done" /\ apiRequestQueue # <<>>) =>
                   /\ isApiCallInFlight'
                   /\ pc'[Head(apiRequestQueue)] \in ExecutingStates
      ]_vars

\* C19 witness: an item that waited through a backoff is in its cooldown,
\* the flag is still true and another item is pending.
C19_Witness ==
    \E i \in Items :
        /\ pc[i] = "cooldown" /\ waits[i] # <<>>
        /\ isApiCallInFlight
        /\ apiRequestQueue # <<>>

\* C20: success stops the retry procedure: a successful attempt is the
\* item's last invocation, and from the moment it succeeds, before the
\* cooldown starts, the caller has that attempt's result.
C20_SuccessStops ==
    \A i \in Items :
        \A k \in 1..Len(log[i]) :
            log[i][k] = "ok" =>
                /\ k = Len(log[i])
                /\ Calls(i) = k
                /\ pc[i] \in {"returned", "cooldown", "done"}
                /\ outcome[i] = returned[i]

\* C20 witness: an item's second attempt has just succeeded with attempts
\* to spare; its caller has the result and the cooldown has not started.
C20_Witness ==
    \E i \in Items :
        /\ log[i] = <<"rateLimit", "ok">>
        /\ maxRetries[i] > 2
        /\ pc[i] = "returned"
        /\ outcome[i] = "data"

\* The item's closure has been started by the drain.
Started(i) == pc[i] \notin {"none", "queued"}

C22_ImmediateStart ==
    [][ (submitted' = submitted + 1 /\ ~isApiCallInFlight /\ apiRequestQueue = <<>>) =>
            /\ apiRequestQueue' = <<>>
            /\ isApiCallInFlight'
            /\ timer'[submitted'] = 0
            /\ waits'[submitted'] = <<>>
            /\ pc'[submitted'] \in {"calling", "returned"}
            /\ attempt'[submitted'] = 1
            /\ maxRetries'[submitted'] >= 1 =>
                   /\ pc'[submitted'] = "calling"
                   /\ log'[submitted'] = <<>>
      ]_vars

\* C22 witness: the first item, submitted to the idle queue, is in its first
\* attempt with nothing pending.
C22_Witness ==
    /\ submitted = 1
    /\ pc[1] = "calling" /\ attempt[1] = 1 /\ log[1] = <<>>
    /\ gap[1] = -1
    /\ apiRequestQueue = <<>>

\* ------------------------------------------------------------ components
serviceVars ==
    <<apiRequestQueue, isApiCallInFlight, submitted, pc, maxRetries,
      initialDelay, attempt, timer, outcome, log, waits, returned, gap,
      sinceEnd, lastError>>

\* A handler has made its state updates and calls the service next: the
\* item its call submits gets the next id.
Submitting == submitted < MaxItems /\ req[submitted + 1] # NoReq

\* A handler's awaited promise has settled and its continuation is ready.
Resumable(i) == hstate[i] = "awaiting" /\ outcome[i] # "pending"

\* JavaScript truthiness of what the service resolved with.
Truthy(v) == v # Null

\* The statements after the await in component c's handler, given the value
\* v the service resolved with for product p and the component's states.
AfterAwaitUnguarded(c, v, p, r, e) ==
    IF c = "ProductRecommendation" /\ ~Truthy(v)
    THEN [raises |-> TRUE, result |-> r, error |-> e, loading |-> TRUE]
    ELSE [raises |-> FALSE,
          result |-> IF Truthy(v) THEN [kind |-> "data", product |-> p] ELSE Empty,
          error |-> e, loading |-> FALSE]

AfterAwait(c, v, p, r, e) ==
    IF c = "ProductRecommendation"
    THEN IF Truthy(v)
         THEN [raises |-> FALSE, result |-> [kind |-> "data", product |-> p],
               error |-> e, loading |-> FALSE]
         ELSE [raises |-> FALSE, result |-> r, error |-> TRUE, loading |-> FALSE]
    ELSE [raises |-> FALSE,
          result |-> IF Truthy(v) THEN [kind |-> "data", product |-> p] ELSE Empty,
          error |-> e, loading |-> FALSE]

\* What a component renders.
Rendered(c, l, r, e) ==
    IF l THEN "spinner"
    ELSE IF r.kind = "data" THEN "data"
    ELSE CASE c = "DynamicPricing"        -> "nothing"
           [] c = "ProductRecommendation" -> IF e THEN "error message" ELSE "prompt"
           [] c = "DemandForecast"        -> "prompt"

\* handleFetchPrice / handleFetchRecommendations, up to the await: the button
\* is disabled while loading.
Click(c) ==
    /\ c \in {"DynamicPricing", "ProductRecommendation"}
    /\ moduleState = "loaded" /\ submitted < MaxItems
    /\ ~loading[c]
    /\ loading' = [loading EXCEPT ![c] = TRUE]
    /\ result' = [result EXCEPT ![c] = Empty]
    /\ error' = IF c = "ProductRecommendation" THEN FALSE ELSE error
    /\ req' = [req EXCEPT ![submitted + 1] = [comp |-> c, product |-> NoProduct]]
    /\ hstate' = [hstate EXCEPT ![submitted + 1] = "awaiting"]
    /\ UNCHANGED <<selected, serviceVars, loadVars, mockVars>>

\* fetchForecast for product p, up to the await.
FetchForecast(p) ==
    /\ loading' = [loading EXCEPT !["DemandForecast"] = TRUE]
    /\ req' = [req EXCEPT ![submitted + 1] =
                  [comp |-> "DemandForecast", product |-> p]]
    /\ hstate' = [hstate EXCEPT ![submitted + 1] = "awaiting"]
    /\ UNCHANGED <<result, error>>

\* setSelectedProductId(p), by the mount effect or the select's onChange,
\* and the effect on selectedProductId that calls fetchForecast.
SelectProduct(p) ==
    /\ moduleState = "loaded" /\ submitted < MaxItems
    /\ p # selected
    /\ selected' = p
    /\ FetchForecast(p)
    /\ UNCHANGED <<serviceVars, loadVars, mockVars>>

\* The Refresh button: disabled while loading or without a selection.
Refresh ==
    /\ moduleState = "loaded" /\ submitted < MaxItems
    /\ ~loading["DemandForecast"] /\ selected # NoProduct
    /\ FetchForecast(selected)
    /\ UNCHANGED <<selected, serviceVars, loadVars, mockVars>>

\* The continuation of the handler that submitted item i.
HandlerResumes(i) ==
    /\ Resumable(i)
    /\ LET c == req[i].comp
           a == AfterAwait(c, outcome[i], req[i].product, result[c], error)
       IN /\ hstate' = [hstate EXCEPT ![i] = IF a.raises THEN "raised" ELSE "finished"]
          /\ result' = [result EXCEPT ![c] = a.result]
          /\ loading' = [loading EXCEPT ![c] = a.loading]
          /\ error' = a.error
    /\ UNCHANGED <<selected, req, serviceVars, loadVars, mockVars>>

\* Work of the components' requests fails at most with an ordinary error.
UiErrors == { [shape |-> "string", text |-> TxtBoom] }

\* The components on top of the service: a handler's call of the service
\* follows its state updates at once, and a ready continuation runs before
\* the next event.
UiNext ==
    \/ LoadModule
    \/ Submitting /\ SafeApiCall(DefaultMaxRetries, DefaultInitialDelay)
    \/ ~Submitting /\ \E i \in Items : HandlerResumes(i)
    \/ /\ ~Submitting /\ \A i \in Items : ~Resumable(i)
       /\ \/ \E c \in Components : Click(c)
          \/ \E p \in Products : SelectProduct(p)
          \/ Refresh
          \/ \E i \in Items : CallSucceeds(i, "data")
          \/ \E i \in Items, e \in UiErrors : CallFails(i, e)
          \/ \E i \in Items : DrainAfterRequest(i)
          \/ \E i \in Items : CooldownElapsed(i)
          \/ \E d \in TickAmounts : Tick(d)

UiSpec == Init /\ [][UiNext]_vars

\* C23: graceful degradation: when the service call of a component's handler
\* has resolved with null, the handler finishes without raising, loading is
\* false afterwards, the result state is empty, and the component renders
\* its fallback (ProductRecommendation its error message), not data.
C23_GracefulDegradation ==
    [][ \A i \in Items :
            (hstate[i] = "awaiting" /\ hstate'[i] # "awaiting" /\ outcome[i] = Null) =>
                LET c == req[i].comp IN
                /\ hstate'[i] = "finished"
                /\ ~loading'[c]
                /\ result'[c] = Empty
                /\ Rendered(c, loading'[c], result'[c], error') \in
                       {"nothing", "error message", "prompt"}
                /\ c = "ProductRecommendation" =>
                       Rendered(c, loading'[c], result'[c], error') = "error message"
      ]_vars

\* C23 witness: each component has had a call resolve with null and its
\* handler has finished.
C23_Witness ==
    \A c \in Components :
        \E i \in Items :
            req[i].comp = c /\ outcome[i] = Null /\ hstate[i] = "finished"

\* Sum of a sequence of numbers.
RECURSIVE SumSeq(_)
SumSeq(q) == IF q = <<>> THEN 0 ELSE Head(q) + SumSeq(Tail(q))

\* C24: the default envelope: maxRetries defaults to 5 and initialDelay to
\* 10000 ms; an item submitted with the defaults whose every attempt failed
\* retryably was invoked 5 times with waits of 10000, 20000, 40000 and
\* 80000 ms between the attempts (150000 ms in total) and its caller has
\* null; every later item started at least 2000 ms after it ended.
C24_DefaultEnvelope ==
    /\ DefaultMaxRetries = 5 /\ DefaultInitialDelay = 10000
    /\ \A i \in Items :
        ( /\ maxRetries[i] = DefaultMaxRetries
          /\ initialDelay[i] = DefaultInitialDelay
          /\ Finished(i)
          /\ \A k \in 1..Len(log[i]) : log[i][k] = "rateLimit" ) =>
            /\ Calls(i) = 5
            /\ waits[i] = <<10000, 20000, 40000, 80000>>
            /\ SumSeq(waits[i]) = 150000
            /\ outcome[i] = Null
            /\ \A j \in Items : (j > i /\ Calls(j) >= 1) => gap[j] >= 2000

\* C24 witness: an item with the defaults failed retryably five times and
\* the item pending behind it has started.
C24_Witness ==
    \E i, j \in Items :
        /\ j > i
        /\ maxRetries[i] = DefaultMaxRetries
        /\ log[i] = <<"rateLimit", "rateLimit", "rateLimit", "rateLimit", "rateLimit">>
        /\ pc[i] = "done"
        /\ Calls(j) >= 1

\* C25: no lost wake-up: whenever control is back in the event loop and
\* items are pending, the flag is true and a drain activation is under way
\* (an item is between its removal from the queue and the end of its
\* cooldown) that will pick them up.
C25_NoLostWakeup ==
    apiRequestQueue # <<>> =>
        /\ isApiCallInFlight
        /\ \E i \in Items : Executing(i) /\ \A k \in 1..Len(apiRequestQueue) : apiRequestQueue[k] > i

\* C25 witness: a cooldown has run out while an item is pending.
C25_Witness ==
    \E i \in Items :
        /\ pc[i] = "cooldown" /\ timer[i] = 0
        /\ apiRequestQueue # <<>>

\* C26: exactly-once handling: an item is in the queue at most once and
\* never again after it was dequeued, so it is dequeued once; and once its
\* caller has an outcome the item's retry procedure is over: its work is
\* never invoked again, no further resolve is reached, and the outcome stays
\* what it was.
C26_ExactlyOnce ==
    [][ \A i \in Items :
            /\ Cardinality({k \in 1..Len(apiRequestQueue) : apiRequestQueue[k] = i}) <= 1
            /\ Started(i) => /\ i \notin Range(apiRequestQueue)
                             /\ i \notin Range(apiRequestQueue')
                             /\ pc'[i] \notin {"none", "queued"}
            /\ outcome[i] # "pending" =>
                   /\ pc[i] \in {"returned", "cooldown", "done"}
                   /\ pc'[i] \in {"returned", "cooldown", "done"}
                   /\ log'[i] = log[i]
                   /\ attempt'[i] = attempt[i]
                   /\ outcome'[i] = outcome[i]
      ]_vars

\* C26 witness: every item has been dequeued, two outcomes of different
\* kinds have been delivered, and the queue has drained.
C26_Witness ==
    /\ submitted = MaxItems
    /\ \A i \in Items : pc[i] = "done"
    /\ \E i, j \in Items : outcome[i] = "data" /\ outcome[j] = Null /\ Len(log[j]) >= 2

\* The item's closure ended by leaving the retry loop through its test (the
\* code after the loop): the counter is past the last invocation.
PostLoop(i) == pc[i] \in {"returned", "cooldown", "done"} /\ attempt[i] > Len(log[i])

\* C27: attempt bounds by maxRetries: a started item with maxRetries >= 1 is
\* invoked at least once and at most maxRetries times and never reaches the
\* code after the retry loop; with maxRetries <= 0 the work is never invoked,
\* the closure goes straight to the code after the loop and the caller
\* receives null.
C27_AttemptBounds ==
    \A i \in Items :
        Started(i) =>
            /\ maxRetries[i] >= 1 => /\ Calls(i) >= 1
                                     /\ Calls(i) <= maxRetries[i]
                                     /\ ~PostLoop(i)
            /\ maxRetries[i] <= 0 => /\ Calls(i) = 0
                                     /\ PostLoop(i)
                                     /\ outcome[i] = Null

\* C27 witness: one item with maxRetries 0 has its null, and another used
\* all of its attempts.
C27_Witness ==
    \E i, j \in Items :
        /\ maxRetries[i] = 0 /\ pc[i] = "done" /\ outcome[i] = Null /\ log[i] = <<>>
        /\ maxRetries[j] >= 1 /\ Finished(j) /\ Len(log[j]) = maxRetries[j]

\* C28: no stale forecast: whenever DemandForecast is not loading and holds
\* a forecast, that forecast was computed for the selected product.
C28_NoStaleForecast ==
    (~loading["DemandForecast"] /\ result["DemandForecast"].kind = "data") =>
        result["DemandForecast"].product = selected

\* ------------------------------------------------------ mock data service
MaxSaleEvents == 102
MaxReviewEvents == 52
MaxViewEvents == 2

\* [x, ...list].slice(0, cap)
PrependCappedNoSlice(x, list, cap) == <<x>> \o list
PrependCapped(x, list, cap) == SubSeq(<<x>> \o list, 1, Min(cap, Len(list) + 1))

\* getUpdatedData() when eventType < 0.5: a new sale.
NewSale ==
    /\ saleEvents < MaxSaleEvents
    /\ saleEvents' = saleEvents + 1
    /\ sales' = PrependCapped(saleEvents + 1, sales, SalesCap)
    /\ activity' = [type |-> "sale", id |-> saleEvents + 1]
    /\ UNCHANGED <<reviews, reviewEvents, userViews>>

\* getUpdatedData() when 0.5 <= eventType < 0.8: a new review.
NewReview ==
    /\ reviewEvents < MaxReviewEvents
    /\ reviewEvents' = reviewEvents + 1
    /\ reviews' = PrependCapped(reviewEvents + 1, reviews, ReviewsCap)
    /\ activity' = [type |-> "review", id |-> reviewEvents + 1]
    /\ UNCHANGED <<sales, saleEvents, userViews>>

\* getUpdatedData() otherwise: a product id is pushed onto a user's
\* viewedProducts.
NewView ==
    /\ userViews < MaxViewEvents
    /\ userViews' = userViews + 1
    /\ activity' = [type |-> "view", id |-> userViews + 1]
    /\ UNCHANGED <<sales, reviews, saleEvents, reviewEvents>>

\* getUpdatedData(): one event, whichever Math.random() picks.  The stock
\* levels it lowers belong to the products, not to either list.
GetUpdatedData ==
    /\ \/ NewSale
       \/ NewReview
       \/ NewView
    /\ UNCHANGED <<serviceVars, loadVars, uiVars>>

MockNext == GetUpdatedData

MockSpec == Init /\ [][MockNext]_vars

\* The newest n generated entries, newest first.
Newest(n) == [k \in 1..n |-> n + 1 - k]

\* C29: the sales list holds at most 200 entries and the reviews list at
\* most 100; generated entries are at the head, newest first, followed by
\* the entries from construction in their order, cut at the cap, so the
\* entries dropped are the oldest; and each getUpdatedData call adds at most
\* one sale or one review and returns exactly one activity, that of its event.
C29_BoundedMockData ==
    [][ /\ Len(sales) <= 200 /\ Len(reviews) <= 100
        /\ sales = SubSeq(Newest(saleEvents) \o InitialList(InitialSales), 1,
                          Min(200, saleEvents + InitialSales))
        /\ reviews = SubSeq(Newest(reviewEvents) \o InitialList(InitialReviews), 1,
                            Min(100, reviewEvents + InitialReviews))
        /\ Len(sales') <= 200 /\ Len(reviews') <= 100
        /\ (saleEvents' - saleEvents) + (reviewEvents' - reviewEvents) \in {0, 1}
        /\ saleEvents' > saleEvents =>
               /\ Head(sales') = saleEvents'
               /\ Tail(sales') = SubSeq(sales, 1, Len(sales') - 1)
               /\ activity' = [type |-> "sale", id |-> Head(sales')]
               /\ reviews' = reviews
        /\ reviewEvents' > reviewEvents =>
               /\ Head(reviews') = reviewEvents'
               /\ Tail(reviews') = SubSeq(reviews, 1, Len(reviews') - 1)
               /\ activity' = [type |-> "review", id |-> Head(reviews')]
               /\ sales' = sales
        /\ (saleEvents' = saleEvents /\ reviewEvents' = reviewEvents) =>
               /\ sales' = sales /\ reviews' = reviews
               /\ activity'.type = "view"
      ]_vars

\* C29 witness: both lists are at their caps after generated entries pushed
\* entries from construction out.
C29_Witness ==
    /\ Len(sales) = 200 /\ saleEvents > 200 - InitialSales
    /\ Len(reviews) = 100 /\ reviewEvents > 100 - InitialReviews
    /\ activity.type = "view"

\* ------------------------------------------------- the unqueued revision
\* 2^n, for Math.pow(2, n).
RECURSIVE Pow2(_)
Pow2(n) == IF n <= 0 THEN 1 ELSE 2 * Pow2(n - 1)

\* safeApiCall of the unqueued revision from attempt a on, given how each
\* invocation of the work ends (rs: "ok", or what the catch block made of the
\* error), the delays ws awaited so far and the value r a success returns:
\* the invocations made, the delays awaited and how its promise settles.
\* `return await apiCall()` fulfils it, `return null` gives null, and an
\* exception thrown inside the catch block rejects it.
RECURSIVE UnqueuedFrom(_, _, _, _, _, _)
UnqueuedFrom(mr, d, rs, a, ws, r) ==
    IF ~(a <= mr)
    THEN [calls |-> a - 1, waits |-> ws, outcome |-> Null]
    ELSE IF a > Len(rs)
    THEN [calls |-> a, waits |-> ws, outcome |-> "pending"]
    ELSE IF rs[a] = "ok"
    THEN [calls |-> a, waits |-> ws, outcome |-> r]
    ELSE IF rs[a] = "threw"
    THEN [calls |-> a, waits |-> ws, outcome |-> "rejected"]
    ELSE IF rs[a] = "rateLimit" /\ a < mr
    THEN UnqueuedFrom(mr, d, rs, a + 1, Append(ws, d * Pow2(a - 1)), r)
    ELSE [calls |-> a, waits |-> ws, outcome |-> Null]

UnqueuedSafeApiCall(mr, d, rs, r) == UnqueuedFrom(mr, d, rs, 1, <<>>, r)

\* C30: the two revisions agree: for a finished item of the queued
\* revision, the unqueued safeApiCall run with the same maxRetries, the same
\* initialDelay and the same per-attempt results invokes the work as often,
\* waits the same delays and delivers the same outcome.
C30_RevisionsAgree ==
    \A i \in Items :
        Finished(i) =>
            LET u == UnqueuedSafeApiCall(maxRetries[i], initialDelay[i], log[i],
                                         returned[i])
            IN /\ u.calls = Calls(i)
               /\ u.waits = waits[i]
               /\ u.outcome = outcome[i]

====
